---- MODULE Spec2Model ----
(***************************************************************************)
(* Model of the mbrs command-line decoder (src/mbrs/cli/decode.py) and of  *)
(* the COMET-QE metric wrapper (src/mbrs/metrics/cometqe.py).              *)
(*                                                                         *)
(* Text lines are sequences of one-character strings, so that str.strip()  *)
(* is computed and not assumed.  The decoder classes are not among the     *)
(* source files; their decode operation is modelled from the design text   *)
(* (sections 4.1 to 4.4) and is marked as such in the map of definitions.  *)
(***************************************************************************)
EXTENDS Integers, Sequences, FiniteSets, TLC

VARIABLES
    args,       \* the parsed command line (parse_args)
    files,      \* contents of the hypotheses, source and references files
    model,      \* the metric backend: a fixed score for every (text, text) pair
    pc,         \* position of main(): "start", "loop", "done" or "fault"
    err,        \* name of the exception that ended main(), "" when none
    i,          \* loop variable of main()
    metric_cfg, \* the configuration the metric was constructed with
    calls,      \* the decode calls made so far, with what each returned
    stdout,     \* the lines printed to args.output, each tagged with its sentence
    mcall       \* the last call of the COMET-QE metric's public API

vars == <<args, files, model, pc, err, i, metric_cfg, calls, stdout, mcall>>

-----------------------------------------------------------------------------
(* Bounds of the model. *)

\* longest hypotheses file, largest --num-candidates and largest --nbest
MaxLines == 3
\* longest references and source file, largest --num-references
MaxRefLines == 2

-----------------------------------------------------------------------------
(* Text. *)

Whitespace == {" ", "\n"}

RECURSIVE LStrip(_)
LStrip(s) ==
    IF s = <<>> THEN s
    ELSE IF Head(s) \in Whitespace THEN LStrip(Tail(s)) ELSE s

RECURSIVE RStrip(_)
RStrip(s) ==
    IF s = <<>> THEN s
    ELSE IF s[Len(s)] \in Whitespace THEN RStrip(SubSeq(s, 1, Len(s) - 1)) ELSE s

\* str.strip(): leading and trailing whitespace removed
Strip(s) == RStrip(LStrip(s))

\* the lines a file may hold, as readlines() returns them
RawLines == { <<"a", "\n">>, <<" ", "b", "\n">> }
RawSource == <<"a", " ", "\n">>

Texts == { Strip(l) : l \in RawLines }
SrcTexts == { Strip(RawSource) }

\* the scores a metric may give
Scores == {0, 1}

SeqsUpTo(S, n) == UNION { [1..k -> S] : k \in 0..n }

Min(a, b) == IF a < b THEN a ELSE b

\* Python's list slice xs[lo:hi] for 0 <= lo <= hi: silently cut at the end
Slice(xs, lo, hi) == SubSeq(xs, lo + 1, Min(hi, Len(xs)))

RECURSIVE Sum(_)
Sum(xs) == IF xs = <<>> THEN 0 ELSE Head(xs) + Sum(Tail(xs))

-----------------------------------------------------------------------------
(* The COMET-QE metric, MetricCOMETQE. *)

\* batch size of the --batch-size option and of MetricCOMETQE.Config
DefaultBatchSize == 64

\* MetricCOMETQE.Config(): the dataclass defaults
COMETQEConfig == [batch_size |-> DefaultBatchSize, float16 |-> FALSE]

\* The list comprehension of scores(): one item per hypothesis, in order.
ReversedData(hyps, source) ==
    [k \in 1..Len(hyps) |-> [src |-> source, mt |-> hyps[Len(hyps) + 1 - k]]]
MakeData(hyps, source) ==
    [k \in 1..Len(hyps) |-> [src |-> source, mt |-> hyps[k]]]

\* The backend's predict(): one score per item, aligned with the items.  The
\* backend is the COMET library; batch_size only sets its internal batching.
\* model is the loaded checkpoint: a fixed score for every (mt, src) pair.
Predict(data) == [k \in 1..Len(data) |-> model[data[k].mt, data[k].src]]

\* What the backend may do with a batch: it is only known to answer a
\* non-empty one.
PredictOutcomes(data) == IF data = <<>> THEN BOOLEAN ELSE {TRUE}

\* numpy's reshape(n) of a flat list: possible only for exactly n elements
CanReshape(xs, n) == Len(xs) = n

\* scorer.predict(data, batch_size=self.cfg.batch_size, gpus=1) as the backend
\* sees it
PredictCall(data) == [data |-> data, batch_size |-> metric_cfg.batch_size]

\* MetricCOMETQE.scores(hypotheses, source); answers tells whether the backend
\* returned.  batches is the list of backend calls made.
MetricScoresPerItem(hyps, source, answers) ==
    LET out == [k \in 1..Len(hyps) |-> model[hyps[k], source]]
    IN  [ok |-> answers, ret |-> IF answers THEN out ELSE <<>>,
         batches |-> [k \in 1..Len(hyps) |->
                         PredictCall(<<[src |-> source, mt |-> hyps[k]]>>)]]
MetricScores(hyps, source, answers) ==
    LET data == MakeData(hyps, source)
        out  == Predict(data)
    IN  IF answers /\ CanReshape(out, Len(hyps))
        THEN [ok |-> TRUE,  ret |-> out,  batches |-> <<PredictCall(data)>>]
        ELSE [ok |-> FALSE, ret |-> <<>>, batches |-> <<PredictCall(data)>>]

\* MetricCOMETQE.score(hypothesis, source): scores([hypothesis], source).item()
MetricScore(hyp, source) ==
    LET r == MetricScores(<<hyp>>, source, TRUE)
    IN  IF r.ok /\ Len(r.ret) = 1
        THEN [ok |-> TRUE,  ret |-> <<r.ret[1]>>, batches |-> r.batches]
        ELSE [ok |-> FALSE, ret |-> <<>>,         batches |-> r.batches]

-----------------------------------------------------------------------------
(* The decoders, from the design text: utility, aggregation, ranking. *)

\* Score of a reference-based metric for one (hypothesis, reference) pair:
\* the exact-match utility of the design text's example, which is also what
\* BLEU gives on one-word texts.
PairScore(hyp, ref) == IF hyp = ref THEN 1 ELSE 0

\* Aggregated score of every hypothesis over the references.  The mean over
\* R references is kept as its numerator, the sum: R is the same for every
\* hypothesis of one call, so the order and the ties are those of the mean.
ExpectedScores(hyps, refs) ==
    [h \in 1..Len(hyps) |->
        Sum([r \in 1..Len(refs) |-> PairScore(hyps[h], refs[r])])]

\* j ranks before k: higher score, or the same score and the smaller index
Beats(agg, j, k) == agg[j] > agg[k] \/ (agg[j] = agg[k] /\ j < k)

RankPos(agg, k) == 1 + Cardinality({j \in 1..Len(agg) : Beats(agg, j, k)})

\* all indices, best first
Ranking(agg) ==
    [p \in 1..Len(agg) |-> CHOOSE k \in 1..Len(agg) : RankPos(agg, k) = p]

\* the n best indices; n > H yields all H
TopK(agg, n) == SubSeq(Ranking(agg), 1, Min(n, Len(agg)))

DecodeFault == [ok |-> FALSE, idx |-> <<>>, sentence |-> <<>>, score |-> <<>>,
                invocations |-> 0]

DecoderOutput(hyps, agg, n, invocations) ==
    LET top == TopK(agg, n)
    IN  [ok |-> TRUE, idx |-> top,
         sentence |-> [p \in 1..Len(top) |-> hyps[top[p]]],
         score |-> [p \in 1..Len(top) |-> agg[top[p]]],
         invocations |-> invocations]

\* DecoderReferenceBased.decode(hypotheses, references, source, nbest)
DecodeReferenceBased(hyps, refs, n) ==
    IF Len(hyps) < 1 \/ Len(refs) < 1 \/ n < 1
    THEN DecodeFault
    ELSE DecoderOutput(hyps, ExpectedScores(hyps, refs), n, Len(hyps) * Len(refs))

\* DecoderReferenceless.decode(hypotheses, source, nbest): one batched call of
\* the metric's scores()
DecodeReferenceless(hyps, source, n) ==
    IF Len(hyps) < 1 \/ n < 1
    THEN DecodeFault
    ELSE LET r == MetricScores(hyps, source, TRUE)
         IN  IF r.ok THEN DecoderOutput(hyps, r.ret, n, Len(r.batches))
             ELSE [DecodeFault EXCEPT !.invocations = Len(r.batches)]

-----------------------------------------------------------------------------
(* The command line front end, main(). *)

\* the condition under which main() passes --batch-size and --fp16 on
IsCometFamily(name) == name = "comet" \/ name = "cometqe"

\* metric_type.Config() with no arguments
DefaultConfig(name) ==
    IF name = "bleu" THEN [metric |-> name]
    ELSE [metric |-> name] @@ COMETQEConfig

\* metric_cfg of main()
MetricConfig ==
    IF IsCometFamily(args.metric)
    THEN [metric |-> args.metric, batch_size |-> args.batch_size,
          float16 |-> args.fp16]
    ELSE DefaultConfig(args.metric)

sources == files.source
hypotheses == files.hypotheses
references ==
    IF files.references.given THEN files.references.lines ELSE hypotheses

num_cands == args.num_candidates
\* args.num_references or num_cands: an absent count and a count of 0 are
\* both kept as 0 in args and both fall back to num_cands
num_refs ==
    IF args.num_references # 0 THEN args.num_references ELSE num_cands
num_sents == Len(hypotheses) \div args.num_candidates

\* the assert of main()
NoBlockSizeCheck == TRUE
BlockSizeOK == num_sents * num_cands = Len(hypotheses)

StripAll(xs) == [k \in 1..Len(xs) |-> Strip(xs[k])]

\* hyps and refs of sentence s (0-based)
HypsShort(s) == StripAll(Slice(hypotheses, s * num_cands, (s + 1) * num_cands - 1))
HypsOf(s) == StripAll(Slice(hypotheses, s * num_cands, (s + 1) * num_cands))
RefsOf(s) == StripAll(Slice(references, s * num_refs, (s + 1) * num_refs))

\* the nbest argument of decoder.decode
NbestAsCands == args.num_candidates
NbestArg == args.nbest

\* for sent in output.sentence: print(sent, file=args.output)
EmitReversed(out, s, sentence) ==
    out \o [p \in 1..Len(sentence) |->
                [sent |-> s, text |-> sentence[Len(sentence) + 1 - p]]]
Emit(out, s, sentence) ==
    out \o [p \in 1..Len(sentence) |-> [sent |-> s, text |-> sentence[p]]]

IsReferenceless == args.decoder = "referenceless"

CallRecord(s, hyps, refs, src, out) ==
    [sent |-> s, mode |-> args.decoder, hyps |-> hyps, refs |-> refs,
     src |-> src, nbest |-> NbestArg, out |-> out]

\* One pass of the loop body for sentence s: the exception it raises ("" when
\* none), the decode call it makes (none when the source lookup raises) and
\* the lines it prints.
LoopBody(s) ==
    IF IsReferenceless /\ ~sources.given
    THEN [err |-> "TypeError", call |-> <<>>]
    ELSE IF sources.given /\ s >= Len(sources.lines)
    THEN [err |-> "IndexError", call |-> <<>>]
    ELSE LET src  == IF sources.given THEN <<Strip(sources.lines[s + 1])>>
                     ELSE <<>>
             hyps == HypsOf(s)
         IN  IF IsReferenceless
             THEN LET out == DecodeReferenceless(hyps, src[1], NbestArg)
                  IN  [err  |-> IF out.ok THEN "" ELSE "DecodeFault",
                       call |-> <<CallRecord(s, hyps, <<>>, src, out)>>]
             ELSE LET refs == RefsOf(s)
                      out  == DecodeReferenceBased(hyps, refs, NbestArg)
                  IN  [err  |-> IF out.ok THEN "" ELSE "DecodeFault",
                       call |-> <<CallRecord(s, hyps, refs, src, out)>>]

NoConfig == [metric |-> "none"]
NoCall == [op |-> "none"]

\* main() up to the loops: read the files, construct metric and decoder,
\* check the block size
Setup ==
    /\ pc = "start"
    /\ metric_cfg' = MetricConfig
    /\ i' = 0
    /\ IF BlockSizeOK
       THEN pc' = "loop" /\ err' = ""
       ELSE pc' = "fault" /\ err' = "AssertionError"
    /\ UNCHANGED <<args, files, model, calls, stdout, mcall>>

\* one iteration of either loop
DecodeSentence ==
    /\ pc = "loop"
    /\ i < num_sents
    /\ LET body == LoopBody(i)
       IN  /\ calls' = calls \o body.call
           /\ IF body.err = ""
              THEN /\ stdout' = Emit(stdout, i, body.call[1].out.sentence)
                   /\ i' = i + 1
                   /\ UNCHANGED <<pc, err>>
              ELSE /\ pc' = "fault"
                   /\ err' = body.err
                   /\ UNCHANGED <<stdout, i>>
    /\ UNCHANGED <<args, files, model, metric_cfg, mcall>>

\* the loop is exhausted; the timing report does not touch the state kept here
Finish ==
    /\ pc = "loop"
    /\ i >= num_sents
    /\ pc' = "done"
    /\ UNCHANGED <<args, files, model, err, i, metric_cfg, calls, stdout, mcall>>

FileGiven(lines) == [given |-> TRUE, lines |-> lines]
FileAbsent == [given |-> FALSE, lines |-> <<>>]

HypothesesFiles == SeqsUpTo(RawLines, MaxLines)
ReferencesFiles ==
    {FileAbsent} \cup {FileGiven(l) : l \in SeqsUpTo(RawLines, MaxRefLines)}
SourceFiles ==
    {FileAbsent} \cup {FileGiven([k \in 1..n |-> RawSource]) : n \in 0..MaxRefLines}

Models == [Texts \X SrcTexts -> Scores]
\* no checkpoint is loaded for a metric other than COMET-QE
NoModel == <<>>

BatchSizes == {DefaultBatchSize, 8}

\* Runs with the default metric: every combination of files and counts.
BleuInputs ==
    [args : [num_candidates : 1..MaxLines,
             num_references : 0..MaxRefLines,
             nbest : 0..MaxLines,
             decoder : {"reference_based"},
             metric : {"bleu"},
             batch_size : {DefaultBatchSize},
             fp16 : {FALSE}],
     files : [hypotheses : HypothesesFiles, source : SourceFiles,
              references : ReferencesFiles],
     model : {NoModel}]

\* Runs with a COMET metric: every combination of the COMET options, without
\* a references file.  The referenceless decoder takes the reference-free
\* metric and conversely.
CometInputs ==
    [args : [num_candidates : 1..MaxLines,
             num_references : {0},
             nbest : 0..MaxLines,
             decoder : {"reference_based"},
             metric : {"comet"},
             batch_size : BatchSizes,
             fp16 : BOOLEAN],
     files : [hypotheses : HypothesesFiles, source : SourceFiles,
              references : {FileAbsent}],
     model : {NoModel}]

CometQEInputs ==
    [args : [num_candidates : 1..MaxLines,
             num_references : {0},
             nbest : 0..MaxLines,
             decoder : {"referenceless"},
             metric : {"comet_qe"},
             batch_size : BatchSizes,
             fp16 : BOOLEAN],
     files : [hypotheses : HypothesesFiles, source : SourceFiles,
              references : {FileAbsent}],
     model : Models]

Init ==
    /\ \E in \in BleuInputs \cup CometInputs \cup CometQEInputs :
          /\ args = in.args
          /\ files = in.files
          /\ model = in.model
    /\ pc = "start"
    /\ err = ""
    /\ i = 0
    /\ metric_cfg = NoConfig
    /\ calls = <<>>
    /\ stdout = <<>>
    /\ mcall = NoCall

Next == Setup \/ DecodeSentence \/ Finish

Spec == Init /\ [][Next]_vars

-----------------------------------------------------------------------------
(* The metric's public API called on its own. *)

MetricConfigs ==
    [metric : {"comet_qe"}, batch_size : BatchSizes, float16 : BOOLEAN]

IdleArgs ==
    [num_candidates |-> 1, num_references |-> 0, nbest |-> 1,
     decoder |-> "referenceless", metric |-> "comet_qe",
     batch_size |-> DefaultBatchSize, fp16 |-> FALSE]

InitMetric ==
    /\ args = IdleArgs
    /\ files = [hypotheses |-> <<>>, source |-> FileAbsent,
                references |-> FileAbsent]
    /\ model \in Models
    /\ pc = "metric"
    /\ err = ""
    /\ i = 0
    /\ metric_cfg \in MetricConfigs
    /\ calls = <<>>
    /\ stdout = <<>>
    /\ mcall = NoCall

\* a caller invokes scores(hypotheses, source)
CallScores ==
    /\ pc = "metric"
    /\ \E hyps \in SeqsUpTo(Texts, MaxLines), source \in SrcTexts :
          \E answers \in PredictOutcomes(MakeData(hyps, source)) :
             mcall' = [op |-> "scores", hyps |-> hyps, src |-> source,
                       res |-> MetricScores(hyps, source, answers)]
    /\ UNCHANGED <<args, files, model, pc, err, i, metric_cfg, calls, stdout>>

\* a caller invokes score(hypothesis, source)
CallScore ==
    /\ pc = "metric"
    /\ \E hyp \in Texts, source \in SrcTexts :
          mcall' = [op |-> "score", hyps |-> <<hyp>>, src |-> source,
                    res |-> MetricScore(hyp, source)]
    /\ UNCHANGED <<args, files, model, pc, err, i, metric_cfg, calls, stdout>>

NextMetric == CallScores \/ CallScore

SpecMetric == InitMetric /\ [][NextMetric]_vars

-----------------------------------------------------------------------------
(* Properties. *)

\* the texts printed for sentence s, in the order printed
PrintedFor(s) ==
    LET OfSentence(e) == e.sent = s
        lines == SelectSeq(stdout, OfSentence)
    IN  [p \in 1..Len(lines) |-> lines[p].text]

\* the aggregated score of every hypothesis of a decode call, from the metric
AggregatedOf(c) ==
    IF c.mode = "referenceless"
    THEN [h \in 1..Len(c.hyps) |-> model[c.hyps[h], c.src[1]]]
    ELSE [h \in 1..Len(c.hyps) |->
             Sum([r \in 1..Len(c.refs) |->
                     IF c.hyps[h] = c.refs[r] THEN 1 ELSE 0])]

MaxOf(xs) == CHOOSE m \in {xs[k] : k \in 1..Len(xs)} :
                \A k \in 1..Len(xs) : xs[k] <= m

OkCalls == {k \in 1..Len(calls) : calls[k].out.ok}

\* C1: the ranked result of every decode call carries the aggregated scores
\* of the hypotheses it names, is ordered by score descending with equal
\* scores in ascending order of the original index, and the lines printed for
\* the sentence are the selected texts in that order.
C1_RankedOrderPrinted ==
    \A k \in OkCalls :
        LET c == calls[k]
            agg == AggregatedOf(c)
        IN  /\ \A p \in 1..Len(c.out.idx) :
                   /\ c.out.idx[p] \in 1..Len(c.hyps)
                   /\ c.out.score[p] = agg[c.out.idx[p]]
            /\ \A p, q \in 1..Len(c.out.idx) :
                   p < q =>
                      \/ c.out.score[p] > c.out.score[q]
                      \/ /\ c.out.score[p] = c.out.score[q]
                         /\ c.out.idx[p] < c.out.idx[q]
            /\ PrintedFor(c.sent)
                   = [p \in 1..Len(c.out.idx) |-> c.hyps[c.out.idx[p]]]

\* a call ranked three hypotheses, the first two tied and the third lower,
\* and the texts were printed
C1_Witness ==
    \E k \in OkCalls :
        LET c == calls[k]
        IN  /\ Len(c.out.idx) = 3
            /\ c.out.score[1] = c.out.score[2]
            /\ c.out.score[2] > c.out.score[3]
            /\ Len(PrintedFor(c.sent)) = 3

\* C2: the ranked result of every decode call has min(nbest, H) entries, all
\* different, H being the size of the sentence's block; with nbest >= H it is
\* the full ranking, the one nbest = H gives.
C2_RankedLength ==
    \A k \in OkCalls :
        LET c == calls[k]
            H == num_cands
            full == IF c.mode = "referenceless"
                    THEN DecodeReferenceless(c.hyps, c.src[1], H)
                    ELSE DecodeReferenceBased(c.hyps, c.refs, H)
        IN  /\ Len(c.out.idx) = Min(args.nbest, H)
            /\ \A p, q \in 1..Len(c.out.idx) :
                   p # q => c.out.idx[p] # c.out.idx[q]
            /\ args.nbest >= H =>
                   /\ {c.out.idx[p] : p \in 1..Len(c.out.idx)} = 1..H
                   /\ c.out = full

\* a call asked for more than its two or more hypotheses and got them all
C2_Witness ==
    \E k \in OkCalls :
        /\ Len(calls[k].hyps) >= 2
        /\ args.nbest > Len(calls[k].hyps)
        /\ Len(calls[k].out.idx) = Len(calls[k].hyps)

\* the texts of the block of sentence s in the hypotheses file
BlockTexts(s) ==
    {Strip(files.hypotheses[s * args.num_candidates + j]) :
        j \in 1..args.num_candidates}

\* every printed line belongs to a decoded sentence, and the lines of a
\* sentence come before those of the next
PrintedInSentenceOrder ==
    /\ \A p \in 1..Len(stdout) : stdout[p].sent \in 0..(i - 1)
    /\ \A p, q \in 1..Len(stdout) : p < q => stdout[p].sent <= stdout[q].sent

\* C3 as stated: every decoded sentence has exactly nbest printed lines, each
\* a text of its own block, sentence after sentence.
C3_ExactlyNbestLines ==
    /\ PrintedInSentenceOrder
    /\ \A s \in 0..(i - 1) :
          /\ Len(PrintedFor(s)) = args.nbest
          /\ \A p \in 1..Len(PrintedFor(s)) : PrintedFor(s)[p] \in BlockTexts(s)

\* C3 amended: every decoded sentence has exactly min(nbest, num_candidates)
\* printed lines, each the stripped text of a line of its own block, and the
\* lines of a sentence are printed before those of the next.
C3_MinNbestLines ==
    /\ PrintedInSentenceOrder
    /\ \A s \in 0..(i - 1) :
          /\ Len(PrintedFor(s)) = Min(args.nbest, args.num_candidates)
          /\ \A p \in 1..Len(PrintedFor(s)) : PrintedFor(s)[p] \in BlockTexts(s)

\* a run of two or more sentences ended with nbest above the block size
C3_Witness ==
    /\ pc = "done"
    /\ i >= 2
    /\ args.nbest > args.num_candidates
    /\ Len(stdout) = i * args.num_candidates

\* C4: when the number of hypothesis lines is not a multiple of
\* num_candidates, main() ends in a fault before any decode call and before
\* any output.
C4_BlockSizeFault ==
    (pc # "start" /\ Len(files.hypotheses) % args.num_candidates # 0) =>
        /\ pc = "fault"
        /\ calls = <<>>
        /\ stdout = <<>>

\* three lines with two candidates per sentence ended in the assertion
C4_Witness ==
    /\ pc = "fault"
    /\ err = "AssertionError"
    /\ Len(files.hypotheses) = 3
    /\ args.num_candidates = 2

\* the count of references per sentence the command line asks for
AskedRefs ==
    IF args.num_references # 0 THEN args.num_references
    ELSE args.num_candidates

\* C5: with a references file, every reference-based decode call gets the
\* block of its sentence: num_references lines (num_candidates when no count
\* is given), never fewer and never none.
C5_FullReferenceBlock ==
    \A k \in 1..Len(calls) :
        LET c == calls[k]
        IN  (c.mode = "reference_based" /\ files.references.given) =>
               /\ AskedRefs >= 1
               /\ Len(c.refs) = AskedRefs
               /\ \A j \in 1..AskedRefs :
                      c.refs[j] =
                         Strip(files.references.lines[c.sent * AskedRefs + j])

\* C6: without a references file, every reference-based decode call gets the
\* hypothesis pool of its own sentence as references.
C6_OwnPoolAsReferences ==
    \A k \in 1..Len(calls) :
        LET c == calls[k]
        IN  (c.mode = "reference_based" /\ ~files.references.given) =>
               c.refs = c.hyps

\* a decode call whose input is a validation fault
InvalidCall(c) ==
    \/ c.nbest < 1
    \/ Len(c.hyps) < 1
    \/ c.mode = "reference_based" /\ Len(c.refs) # AskedRefs

\* C7: a decode call with nbest < 1, no hypothesis or a reference count other
\* than the one asked for faults with no metric invocation; nbest > H is the
\* one input corrected silently; a run with nbest < 1 does not end normally.
C7_FaultsSurfaced ==
    /\ \A k \in 1..Len(calls) :
          /\ InvalidCall(calls[k]) =>
                ~calls[k].out.ok /\ calls[k].out.invocations = 0
          /\ (calls[k].out.ok /\ calls[k].nbest > Len(calls[k].hyps)) =>
                Len(calls[k].out.idx) = Len(calls[k].hyps)
    /\ args.nbest < 1 => (pc # "done" /\ stdout = <<>>)

\* C8: scores() makes one backend call holding one (source, hypothesis) item
\* per hypothesis, in order, and what it returns has one score per
\* hypothesis, the k-th being the backend's score of the k-th hypothesis;
\* score() returns the one element scores() returns for the list of that
\* hypothesis.
C8_BatchedScores ==
    /\ mcall.op = "scores" =>
          /\ Len(mcall.res.batches) = 1
          /\ mcall.res.batches[1].data
                = [k \in 1..Len(mcall.hyps) |->
                      [src |-> mcall.src, mt |-> mcall.hyps[k]]]
          /\ mcall.res.ok =>
                /\ Len(mcall.res.ret) = Len(mcall.hyps)
                /\ \A k \in 1..Len(mcall.hyps) :
                       mcall.res.ret[k] = model[mcall.hyps[k], mcall.src]
    /\ mcall.op = "score" =>
          /\ mcall.res.ok
          /\ Len(mcall.res.ret) = 1
          /\ mcall.res.ret[1] = model[mcall.hyps[1], mcall.src]
          /\ mcall.res.ret = MetricScores(mcall.hyps, mcall.src, TRUE).ret

\* scores() returned three scores, not all the same
C8_Witness ==
    /\ mcall.op = "scores"
    /\ mcall.res.ok
    /\ Len(mcall.hyps) = 3
    /\ mcall.res.ret[1] # mcall.res.ret[3]

Permutations3 ==
    {f \in [1..3 -> 1..3] : \A a, b \in 1..3 : a # b => f[a] # f[b]}

\* reference-free decode calls that ranked a pool of three hypotheses
Pool3Calls ==
    {k \in OkCalls : calls[k].mode = "referenceless" /\ Len(calls[k].hyps) = 3}

\* the top-1 of decoding the pool of call c reordered by f
Top1Permuted(c, f) ==
    LET out == DecodeReferenceless([p \in 1..3 |-> c.hyps[f[p]]], c.src[1],
                                   c.nbest)
    IN  [text |-> out.sentence[1], score |-> out.score[1]]

SinglesOf(c) == [h \in 1..Len(c.hyps) |-> model[c.hyps[h], c.src[1]]]

\* C9 as stated: for a pool of three hypotheses the top-1 text is the same for
\* every order of the pool, and it has the highest single score of the pool.
C9_SameTop1Text ==
    \A k \in Pool3Calls :
        LET c == calls[k]
        IN  /\ model[c.out.sentence[1], c.src[1]] = MaxOf(SinglesOf(c))
            /\ \A f \in Permutations3 :
                   Top1Permuted(c, f).text = c.out.sentence[1]

\* every hypothesis of the pool with the highest score has the same text
UniqueBest(c) ==
    \A g, h \in 1..Len(c.hyps) :
        (SinglesOf(c)[g] = MaxOf(SinglesOf(c)) /\
         SinglesOf(c)[h] = MaxOf(SinglesOf(c))) => c.hyps[g] = c.hyps[h]

\* C9 amended: the top-1 is printed first and has the highest single score of
\* the pool; for every order of the pool the top-1 score is that same score,
\* and the top-1 text is the same whenever all hypotheses with the highest
\* score have the same text.
C9_SameTop1Score ==
    \A k \in Pool3Calls :
        LET c == calls[k]
        IN  /\ model[c.out.sentence[1], c.src[1]] = MaxOf(SinglesOf(c))
            /\ c.out.score[1] = MaxOf(SinglesOf(c))
            /\ PrintedFor(c.sent)[1] = c.out.sentence[1]
            /\ \A f \in Permutations3 :
                   /\ Top1Permuted(c, f).score = c.out.score[1]
                   /\ UniqueBest(c) =>
                         Top1Permuted(c, f).text = c.out.sentence[1]

\* a pool of three with two different texts, the best of them alone at the top
\* and not first in the list
C9_Witness ==
    \E k \in Pool3Calls :
        /\ UniqueBest(calls[k])
        /\ calls[k].out.idx[1] # 1
        /\ \E h \in 1..3 : calls[k].hyps[h] # calls[k].hyps[1]

\* the names --metric accepts for the COMET metrics: MetricCOMETQE is
\* registered as "comet_qe"
CometFamilyNames == {"comet", "comet_qe"}

\* C10: a COMET or COMET-QE metric chosen under its registered name is
\* constructed with the --batch-size and --fp16 of the command line.
C10_CometOptionsPassed ==
    (pc # "start" /\ args.metric \in CometFamilyNames) =>
        /\ metric_cfg.batch_size = args.batch_size
        /\ metric_cfg.float16 = args.fp16

====
